---- MODULE Spec2Model ----
(***************************************************************************)
(* Order-independent transparency buffers of bevy_core_pipeline::oit.      *)
(*                                                                         *)
(* The render world owns one OitBuffers resource (two BufferVecs: layers   *)
(* and layer_ids).  Every frame the extraction step rewrites some camera   *)
(* components, prepare_oit_buffers sizes the two buffers from the cameras  *)
(* its query yields, and the OIT resolve pass binds them.                  *)
(***************************************************************************)
EXTENDS Integers, Sequences, FiniteSets, TLC

\* ------------------------------------------------------------------ bounds

\* Number of camera entities in the render world.
NumCams == 2

\* Largest surplus (in elements) the allocation behind reserve() may grant
\* beyond the requested capacity.
MaxSlack == 1

Cams == 1..NumCams

\* Layer counts a camera's settings may carry.
LayerCounts == {8, 16}

\* physical_target_size: Option<UVec2>
None == <<>>
\* The viewports a camera may report: absent, or width and height in physical pixels.
Viewports == {None, <<50, 50>>, <<100, 50>>, <<100, 100>>}

VARIABLES
  stage,               \* "Finish" before the resource exists, then the current RenderSet
  cursor,              \* next camera entity the extraction step visits
  cameras,             \* the camera entities of the render world
  buffers,             \* the OitBuffers resource
  crashed,             \* "none", or how the process ended
  max_layer_ids_size,  \* local of the last prepare_oit_buffers run
  max_layers_size,     \* local of the last prepare_oit_buffers run
  considered,          \* cameras the query yielded in the last run
  calls,               \* BufferVec calls of the last run, in order
  prepare_runs,        \* runs of prepare_oit_buffers in this frame
  observed,            \* capacities the resolve pass bound in this frame
  largest_required     \* history: largest required sizes of all runs so far

vars == <<stage, cursor, cameras, buffers, crashed, max_layer_ids_size,
          max_layers_size, considered, calls, prepare_runs, observed,
          largest_required>>

\* ------------------------------------------------------- machine integers

\* Half a u32 word: a u32 value is handled as two 16-bit limbs, so that no
\* intermediate product of the 32-bit multiplication exceeds 2^31.
Limb == 65536

\* The 32-bit product x * y keeps only the low 32 bits (release build).
\* low = lo(x)*lo(y) is split once more so that no partial product exceeds 2^31.
WrappingMulU32(x, y) ==
  LET xl == x % Limb
      xh == x \div Limb
      yl == y % Limb
      yh == y \div Limb
      a  == yl \div 256
      b  == yl % 256
      p1 == xl * a
      p0 == xl * b
      mid == ((p1 % 256) * 256) + p0
      lowHi == (p1 \div 256) + (mid \div Limb)
      lowLo == mid % Limb
      cross == (((xh * yl) % Limb) + ((xl * yh) % Limb)) % Limb
      hi == (lowHi + cross) % Limb
  IN  hi * Limb + lowLo

\* TRUE when the mathematical product does not fit 32 bits (debug build:
\* "attempt to multiply with overflow").
MulOverflowsU32(x, y) ==
  LET xl == x % Limb
      xh == x \div Limb
      yl == y % Limb
      yh == y \div Limb
      a  == yl \div 256
      b  == yl % 256
      p1 == xl * a
      p0 == xl * b
      mid == ((p1 % 256) * 256) + p0
      lowHi == (p1 \div 256) + (mid \div Limb)
  IN  \/ (xh > 0 /\ yh > 0)
      \/ ((xh * yl) \div Limb) + ((xl * yh) \div Limb) > 0
      \/ lowHi + ((xh * yl) % Limb) + ((xl * yh) % Limb) >= Limb

\* Variant: the maxima are accumulated as sums.
MaxAsSum(a, b) == a + b

\* Variant: plain assignment, the last value stands.
MaxKeepsLast(a, b) == b

\* usize::max
Max(a, b) == IF a >= b THEN a ELSE b

\* Build profiles: overflow checks panic in "debug" and wrap in "release".
Builds == {"debug", "release"}

\* ---------------------------------------------------------------- BufferVec

\* BufferVec::new: no GPU buffer yet, no values.
BufferVecNew ==
  [capacity |-> 0, len |-> 0, allocated |-> FALSE, uploaded |-> FALSE, uploaded_len |-> 0]

\* reserve(capacity, device): the GPU allocation holds at least `capacity`
\* elements afterwards; `slack` is what the allocation grants beyond the request.
Reserve(b, capacity, slack) ==
  [b EXCEPT !.capacity = capacity + slack, !.allocated = TRUE]

\* push(value): one more element in the logical contents (all values are zero).
Push(b) == [b EXCEPT !.len = @ + 1]

RECURSIVE PushN(_, _)
PushN(b, n) == IF n <= 0 THEN b ELSE PushN(Push(b), n - 1)

\* write_buffer(device, queue): uploads the whole logical contents.
WriteBuffer(b) == [b EXCEPT !.uploaded = TRUE, !.uploaded_len = b.len]

\* ------------------------------------------------------------------ cameras

\* A camera entity of the render world: ExtractedCamera.physical_target_size,
\* OrderIndependentTransparencySettings.layer_count and the change ticks of the
\* two components relative to the last run of prepare_oit_buffers.
NoCamera ==
  [alive |-> FALSE, physical_target_size |-> None, layer_count |-> 0,
   camera_changed |-> FALSE, settings_changed |-> FALSE]

\* Variant: the query without its Changed filters.
QueryMatchesUnfiltered(cam) == cam.alive

\* The query of prepare_oit_buffers: both components, and the filter tuple
\* (Changed<ExtractedCamera>, Changed<OrderIndependentTransparencySettings>),
\* which an entity passes only when it passes every member.
QueryMatches(cam) ==
  cam.alive /\ cam.camera_changed /\ cam.settings_changed

QueryResult(cams) == {c \in DOMAIN cams : QueryMatches(cams[c])}

\* The orders in which the query may yield the matching entities.
QueryOrders(cams) ==
  LET S == QueryResult(cams)
      n == Cardinality(S)
  IN  {o \in [1..n -> S] : \A i, j \in 1..n : o[i] = o[j] => i = j}

\* --------------------------------------------------- prepare_oit_buffers

\* Variant: the loop ends at the first camera without a viewport (break in
\* place of continue).
RECURSIVE AggregateLoopBreak(_, _, _, _)
AggregateLoopBreak(cams, order, build, acc) ==
  IF order = <<>> \/ acc.panicked THEN acc
  ELSE
    LET camera == cams[Head(order)]
        size == camera.physical_target_size
    IN  IF size = None
        THEN acc
        ELSE IF build = "debug" /\ MulOverflowsU32(size[1], size[2])
        THEN [acc EXCEPT !.panicked = TRUE]
        ELSE
          LET layer_count == camera.layer_count
              pixels == WrappingMulU32(size[1], size[2])
          IN  AggregateLoopBreak(cams, Tail(order), build,
                [max_layer_ids_size |-> Max(acc.max_layer_ids_size, pixels),
                 max_layers_size |-> Max(acc.max_layers_size, pixels * layer_count),
                 panicked |-> FALSE])

\* The for loop: the running maxima over the cameras in query order.
RECURSIVE AggregateLoop(_, _, _, _)
AggregateLoop(cams, order, build, acc) ==
  IF order = <<>> \/ acc.panicked THEN acc
  ELSE
    LET camera == cams[Head(order)]
        size == camera.physical_target_size
    IN  IF size = None
        THEN AggregateLoop(cams, Tail(order), build, acc)
        ELSE IF build = "debug" /\ MulOverflowsU32(size[1], size[2])
        THEN [acc EXCEPT !.panicked = TRUE]
        ELSE
          LET layer_count == camera.layer_count
              pixels == WrappingMulU32(size[1], size[2])
          IN  AggregateLoop(cams, Tail(order), build,
                [max_layer_ids_size |-> Max(acc.max_layer_ids_size, pixels),
                 max_layers_size |-> Max(acc.max_layers_size, pixels * layer_count),
                 panicked |-> FALSE])

\* Variant: the maxima start above zero.
UsizeMinOne == 0 + 1

\* usize::MIN
UsizeMin == 0

Aggregate(cams, order, build) ==
  AggregateLoop(cams, order, build,
    [max_layer_ids_size |-> UsizeMin, max_layers_size |-> UsizeMin, panicked |-> FALSE])

\* Variants of the guard: any difference, the reversed comparison, and <=.
NeedsGrowthNe(capacity, required) == capacity # required
NeedsGrowthGt(capacity, required) == capacity > required
NeedsGrowthLe(capacity, required) == capacity <= required

\* The guard of each growth block.
NeedsGrowth(capacity, required) == capacity < required

\* How the process ends when `required - capacity` underflows: the debug build
\* panics on the subtraction; the release build wraps to a count near 2^64 and
\* the push loop runs until memory is exhausted.
UnderflowEnd(build) == IF build = "debug" THEN "panic" ELSE "abort"

\* The zero-fill count of a growth block, read after reserve.
Remaining(required, b) == required - b.capacity

\* Variant: write_buffer outside the guard, on every run.
GrowLayersAlwaysUpload(b, required, slack, build) ==
  IF ~NeedsGrowth(b.capacity, required)
  THEN [buf |-> WriteBuffer(b), calls |-> << <<"layers", "write_buffer">> >>,
        crashed |-> "none"]
  ELSE
    LET reserved == Reserve(b, required, slack)
        remaining == Remaining(required, reserved)
    IN  IF remaining < 0
        THEN [buf |-> reserved, calls |-> << <<"layers", "reserve">> >>,
              crashed |-> UnderflowEnd(build)]
        ELSE [buf |-> WriteBuffer(PushN(reserved, remaining)),
              calls |-> << <<"layers", "reserve">> >>
                        \o [i \in 1..remaining |-> <<"layers", "push">>]
                        \o << <<"layers", "write_buffer">> >>,
              crashed |-> "none"]

\* if buffers.layers.capacity() < max_layers_size { ... }
GrowLayers(b, required, slack, build) ==
  IF ~NeedsGrowth(b.capacity, required)
  THEN [buf |-> b, calls |-> <<>>, crashed |-> "none"]
  ELSE
    LET reserved == Reserve(b, required, slack)
        remaining == Remaining(required, reserved)
    IN  IF remaining < 0
        THEN [buf |-> reserved, calls |-> << <<"layers", "reserve">> >>,
              crashed |-> UnderflowEnd(build)]
        ELSE [buf |-> WriteBuffer(PushN(reserved, remaining)),
              calls |-> << <<"layers", "reserve">> >>
                        \o [i \in 1..remaining |-> <<"layers", "push">>]
                        \o << <<"layers", "write_buffer">> >>,
              crashed |-> "none"]

\* Variant: the layer_ids block without its write_buffer.
GrowLayerIdsNoUpload(b, required, slack, build) ==
  IF ~NeedsGrowth(b.capacity, required)
  THEN [buf |-> b, calls |-> <<>>, crashed |-> "none"]
  ELSE
    LET reserved == Reserve(b, required, slack)
        remaining == Remaining(required, reserved)
    IN  IF remaining < 0
        THEN [buf |-> reserved, calls |-> << <<"layer_ids", "reserve">> >>,
              crashed |-> UnderflowEnd(build)]
        ELSE [buf |-> PushN(reserved, remaining),
              calls |-> << <<"layer_ids", "reserve">> >>
                        \o [i \in 1..remaining |-> <<"layer_ids", "push">>],
              crashed |-> "none"]

\* if buffers.layer_ids.capacity() < max_layer_ids_size { ... }
GrowLayerIds(b, required, slack, build) ==
  IF ~NeedsGrowth(b.capacity, required)
  THEN [buf |-> b, calls |-> <<>>, crashed |-> "none"]
  ELSE
    LET reserved == Reserve(b, required, slack)
        remaining == Remaining(required, reserved)
    IN  IF remaining < 0
        THEN [buf |-> reserved, calls |-> << <<"layer_ids", "reserve">> >>,
              crashed |-> UnderflowEnd(build)]
        ELSE [buf |-> WriteBuffer(PushN(reserved, remaining)),
              calls |-> << <<"layer_ids", "reserve">> >>
                        \o [i \in 1..remaining |-> <<"layer_ids", "push">>]
                        \o << <<"layer_ids", "write_buffer">> >>,
              crashed |-> "none"]

\* ------------------------------------------------------------ trace output

\* std::mem::size_of::<UVec2>(), in bytes.
SizeOfUVec2 == 8

\* "total size {} MiB" of the trace! of the layers block:
\* buffers.layers.capacity() * size_of::<UVec2>() / 1024 / 1024
LayersTraceMiB(b) == ((b.capacity * SizeOfUVec2) \div 1024) \div 1024

\* "total size {} MiB" of the trace! of the layer_ids block:
\* buffers.layer_ids.capacity() * size_of::<UVec2>() / 1024 / 1024
LayerIdsTraceMiB(b) == ((b.capacity * SizeOfUVec2) \div 1024) \div 1024

\* One run of the system on the cameras and the resource as they stand.
RunPrepare(cams, bufs, order, slackLayers, slackIds, build) ==
  LET agg == Aggregate(cams, order, build)
      l == GrowLayers(bufs.layers, agg.max_layers_size, slackLayers, build)
      i == GrowLayerIds(bufs.layer_ids, agg.max_layer_ids_size, slackIds, build)
  IN  IF agg.panicked
      THEN [buffers |-> bufs, calls |-> <<>>, crashed |-> "panic", agg |-> agg]
      ELSE IF l.crashed # "none"
      THEN [buffers |-> [bufs EXCEPT !.layers = l.buf], calls |-> l.calls,
            crashed |-> l.crashed, agg |-> agg]
      ELSE [buffers |-> [layers |-> l.buf, layer_ids |-> i.buf],
            calls |-> l.calls \o i.calls, crashed |-> i.crashed, agg |-> agg]

\* The change ticks as the next run of the system sees them when nothing is
\* written in between: nothing is changed.
Seen(cams) ==
  [c \in DOMAIN cams |->
     [cams[c] EXCEPT !.camera_changed = FALSE, !.settings_changed = FALSE]]

\* ------------------------------------------------------------------- plugin

\* Variant: the system added to the last set of the schedule.
OitPrepareSetCleanup == "Cleanup"

\* build(): the system set prepare_oit_buffers is added to.
OitPrepareSet == "PrepareResources"

\* The sets of the Render schedule, in the order they run each frame; the
\* render graph runs in "Render".
RenderSchedule == <<"ExtractCommands", "PrepareResources", "Render", "Cleanup">>

SetIndex(set) == CHOOSE i \in 1..Len(RenderSchedule) : RenderSchedule[i] = set

Capacities(bufs) == <<bufs.layers.capacity, bufs.layer_ids.capacity>>

\* ------------------------------------------------------------------ actions

Init ==
  /\ stage = "Finish"
  /\ cursor = 1
  /\ cameras = [c \in Cams |-> NoCamera]
  /\ buffers = [layers |-> BufferVecNew, layer_ids |-> BufferVecNew]
  /\ crashed = "none"
  /\ max_layer_ids_size = 0
  /\ max_layers_size = 0
  /\ considered = {}
  /\ calls = <<>>
  /\ prepare_runs = 0
  /\ observed = None
  /\ largest_required = <<0, 0>>

\* Variant: layer_ids left as BufferVec::new made it.
FromWorldBuffersLayersOnly(slackLayers, slackIds) ==
  [layers |-> WriteBuffer(Reserve(BufferVecNew, 0, slackLayers)),
   layer_ids |-> BufferVecNew]

\* OitBuffers::from_world, run by finish() through init_resource.
FromWorldBuffers(slackLayers, slackIds) ==
  [layers |-> WriteBuffer(Reserve(BufferVecNew, 0, slackLayers)),
   layer_ids |-> WriteBuffer(Reserve(BufferVecNew, 0, slackIds))]

FromWorld ==
  /\ stage = "Finish"
  /\ \E slackLayers, slackIds \in 0..MaxSlack :
       buffers' = FromWorldBuffers(slackLayers, slackIds)
  /\ stage' = RenderSchedule[1]
  /\ UNCHANGED <<cursor, cameras, crashed, max_layer_ids_size, max_layers_size,
                 considered, calls, prepare_runs, observed, largest_required>>

Extracting == stage = "ExtractCommands" /\ crashed = "none" /\ cursor \in Cams

\* The extraction step moves to the next camera entity; after the last one the
\* schedule moves on to the next set.
Visited ==
  /\ cursor' = cursor + 1
  /\ stage' = IF cursor + 1 \in Cams THEN stage
              ELSE RenderSchedule[SetIndex("ExtractCommands") + 1]

\* Extraction leaves the camera entity as it is.
ExtractKeep ==
  /\ Extracting
  /\ Visited
  /\ UNCHANGED <<cameras, buffers, crashed, max_layer_ids_size,
                 max_layers_size, considered, calls, prepare_runs, observed, largest_required>>

\* The camera is gone from the render world (removed, or OIT turned off).
ExtractDespawn ==
  /\ Extracting
  /\ cameras[cursor].alive
  /\ cameras' = [cameras EXCEPT ![cursor] = NoCamera]
  /\ Visited
  /\ UNCHANGED <<buffers, crashed, max_layer_ids_size,
                 max_layers_size, considered, calls, prepare_runs, observed, largest_required>>

\* Extraction writes the camera's components: a new camera has both components
\* added (which counts as changed); an existing one has a component changed when
\* its value differs or when it was written again with the same value.
ExtractWrite ==
  /\ Extracting
  /\ \E size \in Viewports, layer_count \in LayerCounts, touchCamera, touchSettings \in BOOLEAN :
       LET old == cameras[cursor]
           new == [alive |-> TRUE,
                   physical_target_size |-> size,
                   layer_count |-> layer_count,
                   camera_changed |-> old.camera_changed \/ touchCamera,
                   settings_changed |-> old.settings_changed \/ touchSettings]
       IN  /\ ~old.alive => (touchCamera /\ touchSettings)
           /\ (old.alive /\ size # old.physical_target_size) => touchCamera
           /\ (old.alive /\ layer_count # old.layer_count) => touchSettings
           /\ touchCamera \/ touchSettings
           /\ cameras' = [cameras EXCEPT ![cursor] = new]
  /\ Visited
  /\ UNCHANGED <<buffers, crashed, max_layer_ids_size,
                 max_layers_size, considered, calls, prepare_runs, observed, largest_required>>

\* The surplus the allocation may grant where a growth block calls reserve.
SlackChoices(b, required) ==
  IF NeedsGrowth(b.capacity, required) THEN 0..MaxSlack ELSE {0}

\* The ways one run of the system can end on the cameras and the resource as
\* they stand: over the query orders, the build profiles and the allocations.
PrepareOutcomes(cams, bufs) ==
  UNION {
    LET agg == Aggregate(cams, order, build)
    IN  {RunPrepare(cams, bufs, order, slackLayers, slackIds, build) :
           slackLayers \in SlackChoices(bufs.layers, agg.max_layers_size),
           slackIds \in SlackChoices(bufs.layer_ids, agg.max_layer_ids_size)}
    : order \in QueryOrders(cams), build \in Builds}

\* The largest required sizes so far, in the order of Capacities, after a run
\* that computed the maxima of agg.
Largest(largest, agg) ==
  <<Max(largest[1], agg.max_layers_size), Max(largest[2], agg.max_layer_ids_size)>>

\* prepare_oit_buffers, once per frame in its system set.
PrepareOitBuffers ==
  /\ stage = OitPrepareSet
  /\ crashed = "none"
  /\ prepare_runs = 0
  /\ \E r \in PrepareOutcomes(cameras, buffers) :
       /\ buffers' = r.buffers
       /\ calls' = r.calls
       /\ crashed' = r.crashed
       /\ max_layer_ids_size' = r.agg.max_layer_ids_size
       /\ max_layers_size' = r.agg.max_layers_size
       /\ largest_required' = Largest(largest_required, r.agg)
  /\ considered' = QueryResult(cameras)
  /\ cameras' = Seen(cameras)
  /\ prepare_runs' = prepare_runs + 1
  /\ UNCHANGED <<stage, cursor, observed>>

\* The render graph of a frame: the transparent pass, then the OIT resolve
\* pass; both bind the two buffers and neither writes the resource.
RunRenderGraph ==
  /\ stage = "Render"
  /\ crashed = "none"
  /\ observed = None
  /\ observed' = Capacities(buffers)
  /\ UNCHANGED <<stage, cursor, cameras, buffers, crashed, max_layer_ids_size,
                 max_layers_size, considered, calls, prepare_runs, largest_required>>

\* The work of the current set is done.
SetDone ==
  /\ stage # "ExtractCommands"
  /\ stage = OitPrepareSet => prepare_runs > 0
  /\ stage = "Render" => observed # None

\* The schedule moves on to the next set of the frame.
AdvanceSet ==
  /\ stage # "Finish"
  /\ stage # RenderSchedule[Len(RenderSchedule)]
  /\ crashed = "none"
  /\ SetDone
  /\ stage' = RenderSchedule[SetIndex(stage) + 1]
  /\ UNCHANGED <<cursor, cameras, buffers, crashed, max_layer_ids_size,
                 max_layers_size, considered, calls, prepare_runs, observed, largest_required>>

\* The frame ends; the next one starts with extraction.
NextFrame ==
  /\ stage = RenderSchedule[Len(RenderSchedule)]
  /\ crashed = "none"
  /\ SetDone
  /\ stage' = RenderSchedule[1]
  /\ cursor' = 1
  /\ prepare_runs' = 0
  /\ observed' = None
  /\ max_layer_ids_size' = 0
  /\ max_layers_size' = 0
  /\ considered' = {}
  /\ calls' = <<>>
  /\ UNCHANGED <<cameras, buffers, crashed, largest_required>>

Next ==
  \/ FromWorld
  \/ ExtractKeep
  \/ ExtractDespawn
  \/ ExtractWrite
  \/ PrepareOitBuffers
  \/ RunRenderGraph
  \/ AdvanceSet
  \/ NextFrame

Spec == Init /\ [][Next]_vars

\* ------------------------------------------- one run on full-width inputs

\* Widths and heights around the 16-bit limb boundary, where the u32 product
\* of line 155 does and does not fit 32 bits.
WideDims == {0, 3, 65536, 65537}

WideViewports == {None} \cup (WideDims \X WideDims)

\* layer_count: u8, at its ends and at its default.
WideLayerCounts == {0, 8, 255}

\* A camera the query yields, or no camera.
WideCameras ==
  {NoCamera} \cup
  {[alive |-> TRUE, physical_target_size |-> size, layer_count |-> layer_count,
    camera_changed |-> TRUE, settings_changed |-> TRUE] :
     size \in WideViewports, layer_count \in WideLayerCounts}

\* The frame stands before its run of prepare_oit_buffers: the resource is as
\* from_world made it and extraction has written the cameras.
InitWide ==
  /\ stage = OitPrepareSet
  /\ cursor = NumCams + 1
  /\ cameras \in [Cams -> WideCameras]
  /\ \E slackLayers, slackIds \in 0..MaxSlack :
       buffers = FromWorldBuffers(slackLayers, slackIds)
  /\ crashed = "none"
  /\ max_layer_ids_size = 0
  /\ max_layers_size = 0
  /\ considered = {}
  /\ calls = <<>>
  /\ prepare_runs = 0
  /\ observed = None
  /\ largest_required = <<0, 0>>

SpecWide == InitWide /\ [][PrepareOitBuffers]_vars

\* ------------------------------- the frame loop with an exact allocation

\* from_world when reserve grants exactly the capacity asked for.
FromWorldExact ==
  /\ stage = "Finish"
  /\ buffers' = FromWorldBuffers(0, 0)
  /\ stage' = RenderSchedule[1]
  /\ UNCHANGED <<cursor, cameras, crashed, max_layer_ids_size, max_layers_size,
                 considered, calls, prepare_runs, observed, largest_required>>

\* The ways one run of the system can end when reserve grants exactly the
\* capacity asked for: over the query orders and the build profiles.
PrepareOutcomesExact(cams, bufs) ==
  {RunPrepare(cams, bufs, order, 0, 0, build) :
     order \in QueryOrders(cams), build \in Builds}

\* prepare_oit_buffers on that allocation.
PrepareOitBuffersExact ==
  /\ stage = OitPrepareSet
  /\ crashed = "none"
  /\ prepare_runs = 0
  /\ \E r \in PrepareOutcomesExact(cameras, buffers) :
       /\ buffers' = r.buffers
       /\ calls' = r.calls
       /\ crashed' = r.crashed
       /\ max_layer_ids_size' = r.agg.max_layer_ids_size
       /\ max_layers_size' = r.agg.max_layers_size
       /\ largest_required' = Largest(largest_required, r.agg)
  /\ considered' = QueryResult(cameras)
  /\ cameras' = Seen(cameras)
  /\ prepare_runs' = prepare_runs + 1
  /\ UNCHANGED <<stage, cursor, observed>>

NextExact ==
  \/ FromWorldExact
  \/ ExtractKeep
  \/ ExtractDespawn
  \/ ExtractWrite
  \/ PrepareOitBuffersExact
  \/ RunRenderGraph
  \/ AdvanceSet
  \/ NextFrame

SpecExact == Init /\ [][NextExact]_vars

\* ------------------------------------------------------------------ claims

\* The mathematical demands of a camera with a present viewport.
PixelCount(cam) == cam.physical_target_size[1] * cam.physical_target_size[2]
IndexDemand(cam) == PixelCount(cam)
StorageDemand(cam) == PixelCount(cam) * cam.layer_count

Present(cam) == cam.alive /\ cam.physical_target_size # None

SetMax(S) == IF S = {} THEN 0 ELSE CHOOSE m \in S : \A x \in S : x <= m

\* The step that is one run of prepare_oit_buffers.
PrepareStep == stage = OitPrepareSet /\ prepare_runs = 0 /\ prepare_runs' = 1

\* The run of this frame has ended normally.
PassEnded == prepare_runs > 0 /\ crashed = "none"

Called(buffer) == \E i \in 1..Len(calls) : calls[i][1] = buffer

\* C1: at the end of every frame's run of prepare_oit_buffers every active
\* camera with a present viewport W x H and layer count L has
\* layer_ids.capacity() >= W*H and layers.capacity() >= W*H*L, also when the
\* camera did not change or only one of its two components changed.
C1_ActiveCamerasFit ==
  PassEnded =>
    \A c \in Cams :
      Present(cameras[c]) =>
        /\ buffers.layer_ids.capacity >= IndexDemand(cameras[c])
        /\ buffers.layers.capacity >= StorageDemand(cameras[c])

\* C2: the capacity of layers and the capacity of layer_ids never decrease,
\* whatever the demand of a later frame is.
C2_NeverShrink ==
  [][/\ buffers'.layers.capacity >= buffers.layers.capacity
     /\ buffers'.layer_ids.capacity >= buffers.layer_ids.capacity]_vars

\* C2 witness: a run has ended whose demand was positive and below both
\* capacities.
C2_Witness ==
  /\ PassEnded
  /\ 0 < max_layers_size /\ max_layers_size < buffers.layers.capacity
  /\ 0 < max_layer_ids_size /\ max_layer_ids_size < buffers.layer_ids.capacity

\* C3: a run includes in the aggregation every camera with a present viewport
\* whose ExtractedCamera changed or whose settings changed (either one alone
\* is enough), so the required sizes cover its W*H and W*H*L.
C3_EitherChangeConsidered ==
  [][PrepareStep =>
       \A c \in Cams :
         (Present(cameras[c])
            /\ (cameras[c].camera_changed \/ cameras[c].settings_changed)) =>
           /\ max_layer_ids_size' >= IndexDemand(cameras[c])
           /\ max_layers_size' >= StorageDemand(cameras[c])]_vars

\* C4: when a run has ended, both capacities cover every camera the query
\* yielded in it with a present viewport, whatever the capacities were before.
C4_ConsideredCamerasFit ==
  PassEnded =>
    \A c \in considered :
      Present(cameras[c]) =>
        /\ buffers.layer_ids.capacity >= IndexDemand(cameras[c])
        /\ buffers.layers.capacity >= StorageDemand(cameras[c])

\* C4 witness: a run has ended that grew layers for a considered camera and
\* found layer_ids, grown by an earlier frame, already large enough.
C4_Witness ==
  /\ PassEnded
  /\ \E c \in considered : Present(cameras[c])
  /\ Called("layers") /\ ~Called("layer_ids")
  /\ max_layer_ids_size > 0

CameraA == [physical_target_size |-> <<100, 100>>, layer_count |-> 8]
CameraB == [physical_target_size |-> <<50, 50>>, layer_count |-> 16]

Is(cam, which) ==
  /\ cam.physical_target_size = which.physical_target_size
  /\ cam.layer_count = which.layer_count

\* The resource as from_world leaves it.
FreshPools == {FromWorldBuffers(sl, si) : sl \in 0..MaxSlack, si \in 0..MaxSlack}

\* C5: the required sizes of a run are the maxima over the considered cameras
\* of W*H and of W*H*L, never the sums; from a fresh pool, with A (100x100,
\* L = 8) and B (50x50, L = 16) both considered, a run that ends leaves
\* 10000 <= layer_ids.capacity() < 12500 and 80000 <= layers.capacity() < 120000.
C5_MaxNotSum ==
  [][PrepareStep =>
       LET yielded == {c \in QueryResult(cameras) : Present(cameras[c])}
       IN  /\ max_layer_ids_size' = SetMax({IndexDemand(cameras[c]) : c \in yielded})
           /\ max_layers_size' = SetMax({StorageDemand(cameras[c]) : c \in yielded})
           /\ (/\ buffers \in FreshPools
               /\ crashed' = "none"
               /\ QueryResult(cameras) = {1, 2}
               /\ Is(cameras[1], CameraA)
               /\ Is(cameras[2], CameraB)) =>
                /\ buffers'.layer_ids.capacity >= 10000
                /\ buffers'.layer_ids.capacity < 12500
                /\ buffers'.layers.capacity >= 80000
                /\ buffers'.layers.capacity < 120000]_vars

\* C5 witness: a run that considered A and B has ended, having grown both
\* buffers to the maxima 10000 and 80000.
C5_Witness ==
  /\ PassEnded
  /\ considered = {1, 2}
  /\ Is(cameras[1], CameraA)
  /\ Is(cameras[2], CameraB)
  /\ Called("layers") /\ Called("layer_ids")
  /\ max_layer_ids_size = 10000 /\ max_layers_size = 80000
  /\ Capacities(buffers) = <<80000, 10000>>

NothingChanged ==
  \A c \in Cams : ~cameras[c].camera_changed /\ ~cameras[c].settings_changed

\* C6: a run in a frame in which no camera's ExtractedCamera and no camera's
\* settings changed calls no reserve, push or write_buffer and leaves both
\* buffers (capacity and contents) as they were.
C6_ChangeGating ==
  [][(PrepareStep /\ NothingChanged) => (calls' = <<>> /\ buffers' = buffers)]_vars

\* C6 witness: a run has ended that considered no camera although a camera
\* with a present viewport is alive, after an earlier frame had grown the buffers.
C6_Witness ==
  /\ PassEnded
  /\ considered = {}
  /\ \E c \in Cams : Present(cameras[c])
  /\ calls = <<>>
  /\ buffers.layers.capacity >= 20000

\* C7: a run leaves a buffer untouched whose capacity already satisfies its
\* own required size (no call on it, the buffer unchanged), whether or not the
\* other buffer grows in the same run.
C7_IndependentGrowth ==
  [][PrepareStep =>
       /\ buffers.layers.capacity >= max_layers_size' =>
            (buffers'.layers = buffers.layers
               /\ \A i \in 1..Len(calls') : calls'[i][1] # "layers")
       /\ buffers.layer_ids.capacity >= max_layer_ids_size' =>
            (buffers'.layer_ids = buffers.layer_ids
               /\ \A i \in 1..Len(calls') : calls'[i][1] # "layer_ids")]_vars

\* C7 witness: a run has ended that grew layer_ids only, the layers buffer
\* already holding exactly the required size.
C7_Witness ==
  /\ PassEnded
  /\ Called("layer_ids") /\ ~Called("layers")
  /\ max_layers_size > 0
  /\ buffers.layers.capacity = max_layers_size

\* C8: from the construction of OitBuffers on, each of the two buffers holds
\* an allocated and uploaded GPU buffer, also while its capacity is zero.
C8_AlwaysBindable ==
  stage # "Finish" =>
    /\ buffers.layers.allocated /\ buffers.layers.uploaded
    /\ buffers.layer_ids.allocated /\ buffers.layer_ids.uploaded

\* C8 witness: the resource is constructed, no camera has been processed and
\* both capacities are zero.
C8_Witness ==
  /\ stage = "ExtractCommands"
  /\ Capacities(buffers) = <<0, 0>>
  /\ buffers.layers.allocated /\ buffers.layer_ids.allocated
  /\ \A c \in Cams : ~cameras[c].alive

\* C9: a run in a frame with no camera, or in which every camera's viewport
\* is absent, computes required sizes of zero, makes no call on either buffer
\* and leaves both buffers as they were.
C9_ZeroDemand ==
  [][(PrepareStep /\ \A c \in Cams : ~Present(cameras[c])) =>
       /\ max_layer_ids_size' = 0
       /\ max_layers_size' = 0
       /\ calls' = <<>>
       /\ buffers' = buffers]_vars

\* C9 witness: a run has ended that considered a camera with an absent
\* viewport, no camera has a viewport, and the capacities an earlier frame
\* left stand.
C9_Witness ==
  /\ PassEnded
  /\ considered # {}
  /\ \A c \in Cams : ~Present(cameras[c])
  /\ calls = <<>>
  /\ buffers.layers.capacity >= 20000
  /\ buffers.layer_ids.capacity >= 2500

\* C10: in every frame prepare_oit_buffers has run exactly once before the
\* render graph binds the buffers, nothing but that run (and the construction)
\* changes the resource, and the capacities the render graph bound stay as
\* they are for the rest of the frame.
C10_PrepareBeforeRender ==
  /\ [](prepare_runs <= 1)
  /\ [](observed # None => (prepare_runs = 1 /\ observed = Capacities(buffers)))
  /\ [][buffers' # buffers => (stage = "Finish" \/ PrepareStep)]_vars

\* C10 witness: the render graph has bound the buffers of a frame whose run
\* grew them, and the frame is in its last set.
C10_Witness ==
  /\ stage = "Cleanup"
  /\ observed # None
  /\ prepare_runs = 1
  /\ Called("layers")
  /\ observed = Capacities(buffers)

\* The number of elements the run of this frame pushed onto a buffer.
Pushed(buffer) ==
  Cardinality({i \in 1..Len(calls) : calls[i] = <<buffer, "push">>})

\* C11: whenever a run of prepare_oit_buffers that ends grows a buffer from
\* old_capacity to new_capacity, it pushes exactly new_capacity - old_capacity
\* zero elements onto it, so that at the end of the run the buffer's length
\* equals its new capacity.
C11_ZeroFillOnGrowth ==
  [][(PrepareStep /\ crashed' = "none") =>
       /\ buffers'.layers.capacity > buffers.layers.capacity =>
            /\ Pushed("layers")' =
                 buffers'.layers.capacity - buffers.layers.capacity
            /\ buffers'.layers.len = buffers'.layers.capacity
       /\ buffers'.layer_ids.capacity > buffers.layer_ids.capacity =>
            /\ Pushed("layer_ids")' =
                 buffers'.layer_ids.capacity - buffers.layer_ids.capacity
            /\ buffers'.layer_ids.len = buffers'.layer_ids.capacity]_vars

\* C12: when reserve grants a buffer more capacity than the run asked for,
\* the run still ends without a panic or an abort.
C12_OverProvisionTolerated ==
  /\ (Called("layers") /\ buffers.layers.capacity > max_layers_size)
       => crashed = "none"
  /\ (Called("layer_ids") /\ buffers.layer_ids.capacity > max_layer_ids_size)
       => crashed = "none"

\* x is the product w * h of the unbounded integers w and h.
IsProduct(x, w, h) ==
  IF w = 0 THEN x = 0 ELSE (x % w) = 0 /\ (x \div w) = h

\* y is the product w * h * l.
IsProduct3(y, w, h, l) ==
  IF l = 0 THEN y = 0 ELSE (y % l) = 0 /\ IsProduct(y \div l, w, h)

\* C13: for every width and height a u32 can hold and every layer count a u8
\* can hold, the index demand a run computes for a camera is the true product
\* width * height and its storage demand is width * height * layer_count,
\* without wrap-around and without an overflow abort, also when
\* width * height exceeds 2^32 - 1.
C13_DemandArithmetic ==
  prepare_runs > 0 =>
    \A c \in considered :
      Present(cameras[c]) =>
        LET width == cameras[c].physical_target_size[1]
            height == cameras[c].physical_target_size[2]
            layer_count == cameras[c].layer_count
        IN  /\ \A build \in Builds :
                 LET demand == Aggregate(cameras, <<c>>, build)
                 IN  /\ ~demand.panicked
                     /\ IsProduct(demand.max_layer_ids_size, width, height)
                     /\ IsProduct3(demand.max_layers_size, width, height,
                                   layer_count)
            /\ (considered = {c} /\ crashed = "none") =>
                 /\ IsProduct(max_layer_ids_size, width, height)
                 /\ IsProduct3(max_layers_size, width, height, layer_count)

\* The calls the run of this frame made on a buffer, in order.
CallsOn(buffer) ==
  LET ops == SelectSeq(calls, LAMBDA call : call[1] = buffer)
  IN  [i \in 1..Len(ops) |-> ops[i][2]]

\* The calls on a buffer are in the order reserve, pushes, write_buffer (a run
\* that died made a prefix of them), and a run that ended made all of them and
\* left the whole contents uploaded.
UploadedAfterGrowth(buffer, b) ==
  LET ops == CallsOn(buffer)
  IN  ops # <<>> =>
        /\ ops[1] = "reserve"
        /\ \A i \in 2..Len(ops) :
             /\ ops[i] \in {"push", "write_buffer"}
             /\ ops[i] = "write_buffer" => i = Len(ops)
        /\ crashed = "none" =>
             /\ ops[Len(ops)] = "write_buffer"
             /\ b.uploaded
             /\ b.uploaded_len = b.len

\* C14: in every run that grows a buffer the calls on that buffer are reserve,
\* then the zero-fill pushes, then write_buffer, and write_buffer uploads the
\* whole contents within the same run: no run ends with a grown buffer that
\* was not uploaded in full afterwards, and the render graph never binds one.
C14_UploadAfterGrowth ==
  /\ UploadedAfterGrowth("layers", buffers.layers)
  /\ UploadedAfterGrowth("layer_ids", buffers.layer_ids)
  /\ observed # None =>
       /\ buffers.layers.uploaded
       /\ buffers.layers.uploaded_len = buffers.layers.len
       /\ buffers.layer_ids.uploaded
       /\ buffers.layer_ids.uploaded_len = buffers.layer_ids.len

\* C14 witness: the render graph has bound the two buffers of a frame whose
\* run grew both of them and ended with write_buffer on each.
C14_Witness ==
  /\ stage = "Render"
  /\ observed # None
  /\ CallsOn("layers") = <<"reserve", "write_buffer">>
  /\ CallsOn("layer_ids") = <<"reserve", "write_buffer">>
  /\ buffers.layers.capacity >= 20000
  /\ buffers.layer_ids.capacity >= 2500

\* The cameras the run of this frame considered, reported as changed again
\* with the same viewports and layer counts.
ConsideredAgain ==
  [c \in Cams |->
     IF c \in considered
     THEN [cameras[c] EXCEPT !.camera_changed = TRUE, !.settings_changed = TRUE]
     ELSE cameras[c]]

\* C15: a run of prepare_oit_buffers that ends, followed by a second run on
\* the same considered cameras (the same viewports and layer counts, reported
\* as changed again), leaves the resource as the first run left it: the second
\* run calls neither reserve nor push nor write_buffer.
C15_IdempotentGrowth ==
  (stage = OitPrepareSet /\ PassEnded) =>
    \A second \in PrepareOutcomes(ConsideredAgain, buffers) :
      /\ second.crashed = "none"
      /\ second.calls = <<>>
      /\ second.buffers = buffers
      /\ second.agg.max_layers_size = max_layers_size
      /\ second.agg.max_layer_ids_size = max_layer_ids_size

\* C15 witness: a run has ended that considered a camera with a present
\* viewport whose demands are exactly the capacities an earlier run grew the
\* buffers to, and it made no call.
C15_Witness ==
  /\ PassEnded
  /\ \E c \in considered : Present(cameras[c])
  /\ calls = <<>>
  /\ max_layers_size > 0
  /\ buffers.layers.capacity = max_layers_size
  /\ buffers.layer_ids.capacity = max_layer_ids_size

\* The cameras the run of this frame considered, as the query yielded them,
\* with every camera whose viewport is absent taken away.
ConsideredWithoutAbsent ==
  [c \in Cams |->
     IF c \in considered /\ cameras[c].physical_target_size # None
     THEN [cameras[c] EXCEPT !.camera_changed = TRUE, !.settings_changed = TRUE]
     ELSE NoCamera]

\* C16: a camera whose physical target size is absent contributes nothing:
\* the two required sizes a run computes for the cameras it considers are the
\* ones it computes for them with the absent-viewport cameras removed,
\* whatever the layer counts of those cameras are.
C16_AbsentViewportFiltering ==
  prepare_runs > 0 =>
    \A order \in QueryOrders(ConsideredWithoutAbsent), build \in Builds :
      LET agg == Aggregate(ConsideredWithoutAbsent, order, build)
      IN  /\ max_layer_ids_size = agg.max_layer_ids_size
          /\ max_layers_size = agg.max_layers_size

\* C16 witness: a run has ended that considered a camera with an absent
\* viewport and 16 layers together with a camera of 8 layers that has a
\* viewport, and its required sizes are those of the second camera.
C16_Witness ==
  /\ PassEnded
  /\ \E a, p \in considered :
       /\ cameras[a].physical_target_size = None
       /\ cameras[a].layer_count = 16
       /\ Present(cameras[p])
       /\ cameras[p].layer_count = 8
       /\ max_layer_ids_size = IndexDemand(cameras[p])
       /\ max_layers_size = StorageDemand(cameras[p])

\* C17: with an allocation that grants exactly the requested capacity, after
\* each run of prepare_oit_buffers each buffer's capacity is the larger of its
\* capacity before the run and the required size of the run; hence each
\* capacity is always the largest required size any run so far has computed
\* for that buffer (0 before any), never more.
C17_TightGrowth ==
  /\ [][PrepareStep =>
          /\ buffers'.layers.capacity =
               Max(buffers.layers.capacity, max_layers_size')
          /\ buffers'.layer_ids.capacity =
               Max(buffers.layer_ids.capacity, max_layer_ids_size')]_vars
  /\ [](Capacities(buffers) = largest_required)

\* C17 witness: a run with a smaller demand has ended after an earlier run
\* grew the buffers, and the capacities are the largest required sizes so far.
C17_Witness ==
  /\ PassEnded
  /\ max_layers_size > 0
  /\ max_layers_size < buffers.layers.capacity
  /\ max_layer_ids_size < buffers.layer_ids.capacity
  /\ Capacities(buffers) = largest_required

\* C18: for the cameras and the resource as they stand before a run of
\* prepare_oit_buffers, the two required sizes the run computes and the state
\* of the resource at its end (capacities, contents, calls made, how it ended)
\* are the same for every order in which the query yields the cameras.
C18_OrderIndependence ==
  (stage = OitPrepareSet /\ prepare_runs = 0 /\ crashed = "none") =>
    \A build \in Builds, slackLayers, slackIds \in 0..MaxSlack :
      Cardinality({RunPrepare(cameras, buffers, order, slackLayers, slackIds, build) :
                     order \in QueryOrders(cameras)}) = 1

\* C18 witness: a run has ended that considered two cameras with viewports
\* of different demands, which the query can yield in either order, and its
\* required sizes are those of the larger one.
C18_Witness ==
  /\ PassEnded
  /\ \E a, b \in considered :
       /\ Present(cameras[a]) /\ Present(cameras[b])
       /\ IndexDemand(cameras[a]) < IndexDemand(cameras[b])
       /\ StorageDemand(cameras[a]) < StorageDemand(cameras[b])
       /\ max_layer_ids_size = IndexDemand(cameras[b])
       /\ max_layers_size = StorageDemand(cameras[b])
       /\ Capacities(buffers) = <<StorageDemand(cameras[b]), IndexDemand(cameras[b])>>

\* std::mem::size_of::<i32>(), in bytes: the element type of layer_ids.
SizeOfI32 == 4

\* C19: the "total size" in MiB a run logs when it grows layer_ids is the
\* buffer's capacity times the byte size of its own element type (i32)
\* divided by 1024 * 1024, just as the size logged for layers is its capacity
\* times the byte size of UVec2 divided by 1024 * 1024.
C19_ReportedSize ==
  /\ (PassEnded /\ Called("layers")) =>
       LayersTraceMiB(buffers.layers) =
         (buffers.layers.capacity * SizeOfUVec2) \div (1024 * 1024)
  /\ (PassEnded /\ Called("layer_ids")) =>
       LayerIdsTraceMiB(buffers.layer_ids) =
         (buffers.layer_ids.capacity * SizeOfI32) \div (1024 * 1024)

====
